---- MODULE Spec2Model ----
(***************************************************************************)
(* Task Poller / Worker Supervisor / Cancellation Monitor of               *)
(* core/polling_manager.py over the todolist table of core/database.py,    *)
(* and the phase chain of flows/multi_format_flow.py.                      *)
(***************************************************************************)
EXTENDS Integers, Sequences, FiniteSets, TLC

\* ------------------------------------------------------------------------
\* Bounds
\* ------------------------------------------------------------------------
NumTasks == 2
MaxPolls == 2
MaxSections == 2
MaxOutcomes == 4

\* ------------------------------------------------------------------------
\* Program constants
\* ------------------------------------------------------------------------
Retries == 3

\* ------------------------------------------------------------------------
\* Domains
\* ------------------------------------------------------------------------
Pollers == {"A", "B"}
Tasks == 1..NumTasks
None == <<>>
Some(x) == <<x>>
Val(o) == o[1]

CancelStatuses == {"CANCELLED", "FB_REQUESTED"}
NormalExitCodes == {0, 1}
KilledExitCodes == {-15}

VARIABLES
    todolist,
    pc,
    row,
    exc,
    current_todo_id,
    current_process,
    worker_terminated_by_us,
    proc,
    exitcode,
    returncode,
    watch_task,
    watch_todo,
    watch_seen,
    signals,
    quota,
    polls,
    sleeps,
    runLog,
    db_client,
    hpc,
    started,
    snapshot,
    form_keys,
    ids_ok,
    execution_plan,
    report_stage,
    report_idx,
    tasks,
    report_sections,
    section_contents,
    report_contents,
    slide_contents,
    text_contents,
    saves,
    calls,
    emit_errors,
    result_text,
    final_saves,
    retry

pollerVars == <<todolist, pc, row, exc, current_todo_id, current_process,
                worker_terminated_by_us, proc, exitcode, returncode, watch_task,
                watch_todo, watch_seen, signals, quota, polls, sleeps, runLog,
                db_client>>

flowVars == <<hpc, started, snapshot, form_keys, ids_ok, execution_plan,
              report_stage, report_idx, tasks, report_sections,
              section_contents, report_contents, slide_contents,
              text_contents, saves, calls, emit_errors, result_text, final_saves>>

vars == <<pollerVars, flowVars, retry>>

supervisorVars == <<current_todo_id, current_process, worker_terminated_by_us>>
workerVars == <<proc, exitcode, returncode, signals>>
watchVars == <<watch_task, watch_todo, watch_seen>>

\* ------------------------------------------------------------------------
\* Store Gateway
\* ------------------------------------------------------------------------
Leasable_NoMutex(tl) ==
    {t \in Tasks : tl[t].draft_status = "PENDING"}

\* rows the lease RPC may hand out: pending and not held by any consumer
Leasable(tl) ==
    {t \in Tasks : tl[t].draft_status = "PENDING" /\ tl[t].consumer = None}

\* the lease RPC: one atomic update that records the consumer
openai_deep_fetch_pending_task(tl, t, consumer_id) ==
    [tl EXCEPT ![t].consumer = Some(consumer_id)]

\* a failed write is logged and swallowed: the row keeps its value
UpdateLog(ok) == IF ok THEN <<"updated">> ELSE <<"update_error">>

update_task_completed_KeepsConsumer(tl, t, ok) ==
    IF ok THEN [tl EXCEPT ![t].draft_status = "COMPLETED"] ELSE tl

\* both terminal updates write the status and an empty consumer at once
update_task_completed(tl, t, ok) ==
    IF ok THEN [tl EXCEPT ![t] = [draft_status |-> "COMPLETED", consumer |-> None]]
    ELSE tl

update_task_error_KeepsConsumer(tl, t, ok) ==
    IF ok THEN [tl EXCEPT ![t].draft_status = "FAILED"] ELSE tl

update_task_error(tl, t, ok) ==
    IF ok THEN [tl EXCEPT ![t] = [draft_status |-> "FAILED", consumer |-> None]]
    ELSE tl

fetch_task_status_FailureReadsCancelled(tl, t, ok) ==
    IF ok THEN Some(tl[t].draft_status) ELSE Some("CANCELLED")

\* a failed read yields None
fetch_task_status(tl, t, ok) ==
    IF ok THEN Some(tl[t].draft_status) ELSE None

\* ------------------------------------------------------------------------
\* Initial state
\* ------------------------------------------------------------------------
\* what a monitor has met so far: a failed status query, and a cancellation
\* status read in time to signal the worker ("fired") or too late ("late")
NoReads == [failed |-> FALSE, cancel |-> "no"]

\* the module state of a poller process at import: no task, no worker
ModuleState ==
    /\ row = [p \in Pollers |-> None]
    /\ exc = [p \in Pollers |-> FALSE]
    /\ current_todo_id = [p \in Pollers |-> None]
    /\ current_process = [p \in Pollers |-> FALSE]
    /\ worker_terminated_by_us = [p \in Pollers |-> FALSE]
    /\ proc = [p \in Pollers |-> "none"]
    /\ exitcode = [p \in Pollers |-> 0]
    /\ returncode = [p \in Pollers |-> None]
    /\ watch_task = [p \in Pollers |-> "none"]
    /\ watch_todo = [p \in Pollers |-> None]
    /\ watch_seen = [p \in Pollers |-> NoReads]
    /\ signals = [p \in Pollers |-> 0]
    /\ polls = [p \in Pollers |-> 0]
    /\ sleeps = [p \in Pollers |-> 0]
    /\ runLog = [p \in Pollers |-> <<>>]

\* a poller process that has not polled yet: its lifespan has created the
\* store client and started the polling loop
PollerIdle ==
    /\ ModuleState
    /\ pc = [p \in Pollers |-> "poll"]
    /\ db_client = [p \in Pollers |-> TRUE]

InitState ==
    /\ todolist = [t \in Tasks |-> [draft_status |-> "PENDING", consumer |-> None]]
    /\ PollerIdle

Handlers == {"PLAN", "REPORT", "SLIDE", "TEXT", "SAVE"}
EmptyDict == [k \in {} |-> <<>>]

\* the flow state before kickoff
FlowInitState ==
    /\ hpc = [h \in Handlers |-> "idle"]
    /\ started = <<>>
    /\ snapshot = <<EmptyDict, EmptyDict, EmptyDict, EmptyDict>>
    /\ execution_plan = None
    /\ report_stage = "entry"
    /\ report_idx = 0
    /\ tasks = <<>>
    /\ report_sections = EmptyDict
    /\ section_contents = EmptyDict
    /\ report_contents = EmptyDict
    /\ slide_contents = EmptyDict
    /\ text_contents = EmptyDict
    /\ saves = <<>>
    /\ calls = <<>>
    /\ emit_errors = 0
    /\ result_text = None
    /\ final_saves = 0

\* the places that wrap a call in the retry loop
RetrySites == {"_async_retry", "generate_toc", "_call_openai_api_async._retry"}

\* a retry loop not yet entered: the outcomes the wrapped function will have
\* on its successive invocations are the input
RetryStart(site, outcomes) ==
    [site |-> site, outcomes |-> outcomes, pc |-> "loop", attempt |-> 1,
     calls |-> 0, sleeps |-> 0, result |-> None, raised |-> 0]
RetryIdle == RetryStart("_async_retry", <<>>)

\* no flow is running in the poller process
FlowIdle ==
    /\ FlowInitState
    /\ form_keys = {}
    /\ ids_ok = FALSE
    /\ retry = RetryIdle

\* a single poller instance: "A" polls, "B" is not started
Init ==
    /\ InitState
    /\ quota = [p \in Pollers |-> IF p = "A" THEN MaxPolls ELSE 0]
    /\ FlowIdle

\* horizontal scaling: two poller instances, one lease attempt each
InitScaled ==
    /\ InitState
    /\ quota = [p \in Pollers |-> 1]
    /\ FlowIdle

Log(p, entries) == [runLog EXCEPT ![p] = @ \o entries]

\* ------------------------------------------------------------------------
\* Task Poller: start_todolist_polling
\* ------------------------------------------------------------------------
\* one lease attempt; a returned row enters process_new_task
fetch_pending_task(p) ==
    /\ pc[p] = "poll"
    /\ polls[p] < quota[p]
    /\ polls' = [polls EXCEPT ![p] = @ + 1]
    /\ sleeps' = [sleeps EXCEPT ![p] = 0]
    /\ \/ \* RPC failed on every retry, or returned no row
          /\ \E failed \in BOOLEAN : failed \/ Leasable(todolist) = {}
          /\ UNCHANGED todolist
          /\ row' = [row EXCEPT ![p] = None]
          /\ pc' = [pc EXCEPT ![p] = "sleep"]
          /\ UNCHANGED <<current_todo_id, runLog>>
       \/ \E t \in Leasable(todolist) :
          /\ db_client[p]
          /\ todolist' = openai_deep_fetch_pending_task(todolist, t, p)
          /\ row' = [row EXCEPT ![p] = Some(t)]
          /\ current_todo_id' = [current_todo_id EXCEPT ![p] = Some(t)]
          /\ runLog' = [runLog EXCEPT ![p] = <<>>]
          /\ pc' = [pc EXCEPT ![p] = "prepare"]
    /\ UNCHANGED <<exc, current_process, worker_terminated_by_us, workerVars,
                   watchVars, quota, db_client>>
    /\ UNCHANGED <<flowVars, retry>>

\* ------------------------------------------------------------------------
\* Worker Supervisor: process_new_task / _execute_worker_process
\* ------------------------------------------------------------------------
\* _prepare_task_inputs: summaries, participants and form lookups; any of
\* them may raise into the except clause of process_new_task
prepare_task_inputs(p) ==
    /\ pc[p] = "prepare"
    /\ \E ok \in BOOLEAN :
        IF ok
        THEN /\ pc' = [pc EXCEPT ![p] = "spawn"]
             /\ UNCHANGED exc
        ELSE /\ pc' = [pc EXCEPT ![p] = "pnt_except"]
             /\ exc' = [exc EXCEPT ![p] = TRUE]
    /\ UNCHANGED <<todolist, row, supervisorVars, workerVars, watchVars,
                   quota, db_client, polls, sleeps, runLog>>
    /\ UNCHANGED <<flowVars, retry>>

\* create_subprocess_exec and create_task(_watch_cancel_status())
spawn_worker(p) ==
    /\ pc[p] = "spawn"
    /\ worker_terminated_by_us' = [worker_terminated_by_us EXCEPT ![p] = FALSE]
    /\ \E ok \in BOOLEAN :
        IF ok
        THEN /\ current_process' = [current_process EXCEPT ![p] = TRUE]
             /\ proc' = [proc EXCEPT ![p] = "running"]
             /\ returncode' = [returncode EXCEPT ![p] = None]
             /\ signals' = [signals EXCEPT ![p] = 0]
             /\ watch_task' = [watch_task EXCEPT ![p] = "created"]
             /\ watch_seen' = [watch_seen EXCEPT ![p] = NoReads]
             /\ pc' = [pc EXCEPT ![p] = "wait"]
             /\ runLog' = Log(p, <<"worker_started">>)
             /\ UNCHANGED exc
        ELSE /\ pc' = [pc EXCEPT ![p] = "ewp_except"]
             /\ exc' = [exc EXCEPT ![p] = TRUE]
             /\ UNCHANGED <<current_process, proc, returncode, signals,
                            watch_task, watch_seen, runLog>>
    /\ UNCHANGED <<todolist, row, current_todo_id, exitcode, watch_todo,
                   quota, db_client, polls, sleeps>>
    /\ UNCHANGED <<flowVars, retry>>

WaitDone_OnSignal(p) == returncode[p] # None \/ worker_terminated_by_us[p]

\* current_process.wait() returns once the loop has recorded the exit status
WaitDone(p) == returncode[p] # None

ResolveStatus_NoExitCheck(terminated, rc) ==
    IF terminated THEN "USER_CANCELLED" ELSE "COMPLETED"

ResolveStatus_ExitCodeFirst(terminated, rc) ==
    IF rc # Some(0) THEN "FAILED"
    ELSE IF terminated THEN "USER_CANCELLED"
    ELSE "COMPLETED"

\* the branch taken after wait(): cancelled, abnormal exit, or normal exit
ResolveStatus(terminated, rc) ==
    IF terminated THEN "USER_CANCELLED"
    ELSE IF rc # Some(0) THEN "FAILED"
    ELSE "COMPLETED"

wait_worker_NoCancel(p) ==
    /\ pc[p] = "wait"
    /\ WaitDone(p)
    /\ UNCHANGED watch_task
    /\ LET status == ResolveStatus(worker_terminated_by_us[p], returncode[p]) IN
        CASE status = "USER_CANCELLED" ->
                /\ runLog' = Log(p, <<"USER_CANCELLED">>)
                /\ pc' = [pc EXCEPT ![p] = "pnt_finally"]
          [] status = "FAILED" ->
                /\ runLog' = Log(p, <<"worker_abnormal_exit">>)
                /\ pc' = [pc EXCEPT ![p] = "mark_failed"]
          [] OTHER ->
                /\ UNCHANGED runLog
                /\ pc' = [pc EXCEPT ![p] = "emit"]
    /\ UNCHANGED <<todolist, row, exc, supervisorVars, workerVars, watch_todo,
                   watch_seen, quota, db_client, polls, sleeps>>
    /\ UNCHANGED <<flowVars, retry>>

\* after wait(): the monitor is cancelled unless it is done, then the branch
wait_worker(p) ==
    /\ pc[p] = "wait"
    /\ WaitDone(p)
    /\ watch_task' = [watch_task EXCEPT ![p] =
                        IF @ = "done" THEN "done" ELSE "cancelled"]
    /\ LET status == ResolveStatus(worker_terminated_by_us[p], returncode[p]) IN
        CASE status = "USER_CANCELLED" ->
                /\ runLog' = Log(p, <<"USER_CANCELLED">>)
                /\ pc' = [pc EXCEPT ![p] = "pnt_finally"]
          [] status = "FAILED" ->
                /\ runLog' = Log(p, <<"worker_abnormal_exit">>)
                /\ pc' = [pc EXCEPT ![p] = "mark_failed"]
          [] OTHER ->
                /\ UNCHANGED runLog
                /\ pc' = [pc EXCEPT ![p] = "emit"]
    /\ UNCHANGED <<todolist, row, exc, supervisorVars, workerVars, watch_todo,
                   watch_seen, quota, db_client, polls, sleeps>>
    /\ UNCHANGED <<flowVars, retry>>

\* abnormal exit: update_task_error, then return
mark_failed(p) ==
    /\ pc[p] = "mark_failed"
    /\ \E ok \in BOOLEAN :
        /\ todolist' = update_task_error(todolist, Val(row[p]), ok)
        /\ runLog' = Log(p, <<"markFailed">> \o UpdateLog(ok))
    /\ pc' = [pc EXCEPT ![p] = "pnt_finally"]
    /\ UNCHANGED <<row, exc, supervisorVars, workerVars, watchVars, quota, db_client, polls, sleeps>>
    /\ UNCHANGED <<flowVars, retry>>

\* EventLogger.emit_event: a failed insert raises out of emit_event
emit_event(log, p, event_type, ok) ==
    [log EXCEPT ![p] = @ \o <<IF ok THEN event_type ELSE "event_error">>]

emit_crew_completed(p) ==
    /\ pc[p] = "emit"
    /\ \E ok \in BOOLEAN :
        /\ runLog' = emit_event(runLog, p, "crew_completed", ok)
        /\ IF ok
           THEN /\ pc' = [pc EXCEPT ![p] = "mark_completed"]
                /\ UNCHANGED exc
           ELSE /\ pc' = [pc EXCEPT ![p] = "ewp_except"]
                /\ exc' = [exc EXCEPT ![p] = TRUE]
    /\ UNCHANGED <<todolist, row, supervisorVars, workerVars, watchVars,
                   quota, db_client, polls, sleeps>>
    /\ UNCHANGED <<flowVars, retry>>

mark_completed_FailureRaises(p) ==
    /\ pc[p] = "mark_completed"
    /\ \E ok \in BOOLEAN :
        /\ todolist' = update_task_completed(todolist, Val(row[p]), ok)
        /\ runLog' = Log(p, <<"worker_normal_exit", "markCompleted">> \o UpdateLog(ok))
        /\ pc' = [pc EXCEPT ![p] = IF ok THEN "pnt_finally" ELSE "ewp_except"]
        /\ exc' = [exc EXCEPT ![p] = ~ok]
    /\ UNCHANGED <<row, supervisorVars, workerVars, watchVars, quota, db_client, polls, sleeps>>
    /\ UNCHANGED <<flowVars, retry>>

\* normal exit: update_task_completed, which swallows a failed write
mark_completed(p) ==
    /\ pc[p] = "mark_completed"
    /\ \E ok \in BOOLEAN :
        /\ todolist' = update_task_completed(todolist, Val(row[p]), ok)
        /\ runLog' = Log(p, <<"worker_normal_exit", "markCompleted">> \o UpdateLog(ok))
    /\ pc' = [pc EXCEPT ![p] = "pnt_finally"]
    /\ UNCHANGED <<row, exc, supervisorVars, workerVars, watchVars, quota, db_client, polls, sleeps>>
    /\ UNCHANGED <<flowVars, retry>>

\* except clause of _execute_worker_process: update_task_error, re-raise
execute_worker_process_except(p) ==
    /\ pc[p] = "ewp_except"
    /\ \E ok \in BOOLEAN :
        /\ todolist' = update_task_error(todolist, Val(row[p]), ok)
        /\ runLog' = Log(p, <<"markFailed">> \o UpdateLog(ok) \o <<"worker_run_failed">>)
    /\ pc' = [pc EXCEPT ![p] = "pnt_except"]
    /\ UNCHANGED <<row, exc, supervisorVars, workerVars, watchVars, quota, db_client, polls, sleeps>>
    /\ UNCHANGED <<flowVars, retry>>

process_new_task_except_NoMark(p) ==
    /\ pc[p] = "pnt_except"
    /\ runLog' = Log(p, <<"task_prepare_failed">>)
    /\ pc' = [pc EXCEPT ![p] = "pnt_finally"]
    /\ UNCHANGED <<todolist, row, exc, supervisorVars, workerVars, watchVars,
                   quota, db_client, polls, sleeps>>
    /\ UNCHANGED <<flowVars, retry>>

\* except clause of process_new_task: update_task_error, re-raise
process_new_task_except(p) ==
    /\ pc[p] = "pnt_except"
    /\ \E ok \in BOOLEAN :
        /\ todolist' = update_task_error(todolist, Val(row[p]), ok)
        /\ runLog' = Log(p, <<"markFailed">> \o UpdateLog(ok) \o <<"task_prepare_failed">>)
    /\ pc' = [pc EXCEPT ![p] = "pnt_finally"]
    /\ UNCHANGED <<row, exc, supervisorVars, workerVars, watchVars, quota, db_client, polls, sleeps>>
    /\ UNCHANGED <<flowVars, retry>>

AfterTask_StopsPolling(raised) == "stopped"

\* where the poller goes once process_new_task has returned or raised
AfterTask(raised) == IF raised THEN "poll_except" ELSE "sleep"

process_new_task_finally_KeepsFlag(p) ==
    /\ pc[p] = "pnt_finally"
    /\ current_process' = [current_process EXCEPT ![p] = FALSE]
    /\ current_todo_id' = [current_todo_id EXCEPT ![p] = None]
    /\ runLog' = Log(p, IF exc[p] THEN <<"raised">> ELSE <<"returned">>)
    /\ pc' = [pc EXCEPT ![p] = AfterTask(exc[p])]
    /\ watch_seen' = [watch_seen EXCEPT ![p] = NoReads]
    /\ UNCHANGED <<todolist, row, exc, worker_terminated_by_us, workerVars,
                   watch_task, watch_todo, quota, db_client, polls, sleeps>>
    /\ UNCHANGED <<flowVars, retry>>

\* finally clause of process_new_task: reset the module state; the monitor
\* of the run is gone with it
process_new_task_finally(p) ==
    /\ pc[p] = "pnt_finally"
    /\ current_process' = [current_process EXCEPT ![p] = FALSE]
    /\ worker_terminated_by_us' = [worker_terminated_by_us EXCEPT ![p] = FALSE]
    /\ current_todo_id' = [current_todo_id EXCEPT ![p] = None]
    /\ runLog' = Log(p, IF exc[p] THEN <<"raised">> ELSE <<"returned">>)
    /\ pc' = [pc EXCEPT ![p] = AfterTask(exc[p])]
    /\ watch_seen' = [watch_seen EXCEPT ![p] = NoReads]
    /\ UNCHANGED <<todolist, row, exc, workerVars, watch_task, watch_todo,
                   quota, db_client, polls, sleeps>>
    /\ UNCHANGED <<flowVars, retry>>

PollerCatch_NoSleep == "poll"

\* except clause of the polling loop: log and go on to the sleep
PollerCatch == "sleep"

polling_except(p) ==
    /\ pc[p] = "poll_except"
    /\ exc' = [exc EXCEPT ![p] = FALSE]
    /\ runLog' = Log(p, <<"polling_error">>)
    /\ pc' = [pc EXCEPT ![p] = PollerCatch]
    /\ UNCHANGED <<todolist, row, supervisorVars, workerVars, watchVars,
                   quota, db_client, polls, sleeps>>
    /\ UNCHANGED <<flowVars, retry>>

\* asyncio.sleep(interval) at the end of every iteration
polling_sleep(p) ==
    /\ pc[p] = "sleep"
    /\ sleeps' = [sleeps EXCEPT ![p] = @ + 1]
    /\ pc' = [pc EXCEPT ![p] = "poll"]
    /\ UNCHANGED <<todolist, row, exc, supervisorVars, workerVars, watchVars,
                   quota, db_client, polls, runLog>>
    /\ UNCHANGED <<flowVars, retry>>

\* ------------------------------------------------------------------------
\* Worker process (operating-system view) and the loop's view of it
\* ------------------------------------------------------------------------
\* the worker ends on its own, or is killed by a delivered SIGTERM
WorkerExit(p) ==
    /\ proc[p] = "running"
    /\ \E code \in (IF signals[p] > 0 THEN NormalExitCodes \cup KilledExitCodes
                    ELSE NormalExitCodes) :
        exitcode' = [exitcode EXCEPT ![p] = code]
    /\ proc' = [proc EXCEPT ![p] = "exited"]
    /\ UNCHANGED <<todolist, pc, row, exc, supervisorVars, returncode, signals,
                   watchVars, quota, db_client, polls, sleeps, runLog>>
    /\ UNCHANGED <<flowVars, retry>>

\* the event loop learns the exit status and wakes wait()
ProcessExited(p) ==
    /\ proc[p] = "exited"
    /\ current_process[p]
    /\ returncode[p] = None
    /\ returncode' = [returncode EXCEPT ![p] = Some(exitcode[p])]
    /\ UNCHANGED <<todolist, pc, row, exc, supervisorVars, proc, exitcode,
                   signals, watchVars, quota, db_client, polls, sleeps, runLog>>
    /\ UNCHANGED <<flowVars, retry>>

\* ------------------------------------------------------------------------
\* Cancellation Monitor: _watch_cancel_status / terminate_current_worker
\* ------------------------------------------------------------------------
\* the while condition of the monitor
WatchGuard(p) ==
    current_process[p] /\ returncode[p] = None /\ ~worker_terminated_by_us[p]

CanTerminate_AnyProcess(p) == current_process[p]

\* terminate_current_worker signals only a process with no exit status yet
CanTerminate(p) == current_process[p] /\ returncode[p] = None

WatchLoopAgain_NoStop(detected, alive, terminated) == alive

\* after a poll the monitor goes round again only if it did not break and
\* the while condition still holds
WatchLoopAgain(detected, alive, terminated) ==
    ~detected /\ alive /\ ~terminated

watch_start(p) ==
    /\ watch_task[p] = "created"
    /\ watch_todo' = [watch_todo EXCEPT ![p] = current_todo_id[p]]
    /\ watch_task' = [watch_task EXCEPT ![p] =
            IF current_todo_id[p] # None /\ WatchGuard(p)
            THEN "sleeping" ELSE "done"]
    /\ UNCHANGED <<todolist, pc, row, exc, supervisorVars, workerVars, watch_seen,
                   quota, db_client, polls, sleeps, runLog>>
    /\ UNCHANGED <<flowVars, retry>>

watch_poll(p) ==
    /\ watch_task[p] = "sleeping"
    /\ \E ok \in BOOLEAN :
        LET draft_status == fetch_task_status(todolist, Val(watch_todo[p]), ok)
            detected == draft_status # None /\ Val(draft_status) \in CancelStatuses
            fire == detected /\ CanTerminate(p)
        IN
        /\ worker_terminated_by_us' =
                [worker_terminated_by_us EXCEPT ![p] = IF fire THEN TRUE ELSE @]
        /\ signals' = [signals EXCEPT ![p] = IF fire THEN @ + 1 ELSE @]
        /\ watch_task' = [watch_task EXCEPT ![p] =
                IF WatchLoopAgain(detected, CanTerminate(p),
                                  worker_terminated_by_us'[p])
                THEN "sleeping" ELSE "done"]
        /\ watch_seen' = [watch_seen EXCEPT ![p] =
                [failed |-> @.failed \/ ~ok,
                 cancel |-> IF ~detected THEN @.cancel
                            ELSE IF fire THEN "fired" ELSE "late"]]
    /\ UNCHANGED <<todolist, pc, row, exc, current_todo_id, current_process,
                   proc, exitcode, returncode, watch_todo, quota, db_client, polls, sleeps, runLog>>
    /\ UNCHANGED <<flowVars, retry>>

\* ------------------------------------------------------------------------
\* Outside actor: a user cancels or asks for feedback on a running task
\* ------------------------------------------------------------------------
UserSetStatus(t) ==
    /\ todolist[t].draft_status = "PENDING"
    /\ todolist[t].consumer # None
    /\ \E s \in CancelStatuses :
        todolist' = [todolist EXCEPT ![t].draft_status = s]
    /\ UNCHANGED <<pc, row, exc, supervisorVars, workerVars, watchVars,
                   quota, db_client, polls, sleeps, runLog>>
    /\ UNCHANGED <<flowVars, retry>>

\* ------------------------------------------------------------------------
\* Pipeline Orchestrator: PromptMultiFormatFlow
\* ------------------------------------------------------------------------
Separator == "\n\n---\n\n"
Put(d, k, v) == [x \in DOMAIN d \cup {k} |-> IF x = k THEN v ELSE d[x]]

\* a slide form of the plan
SlideForm(k, deps) == [key |-> k, dependencies |-> deps]

\* plans the planning call may return
Plans ==
    {[report_phase |-> <<>>, slide_phase |-> <<>>, text_phase |-> <<>>],
     [report_phase |-> <<>>,
      slide_phase |-> <<SlideForm("s1", {}), SlideForm("s2", {"r1"})>>,
      text_phase |-> <<"t2">>],
     [report_phase |-> <<"r1">>, slide_phase |-> <<SlideForm("s1", {"r1"})>>,
      text_phase |-> <<>>],
     [report_phase |-> <<"r1">>, slide_phase |-> <<SlideForm("s1", {})>>,
      text_phase |-> <<"t1">>],
     [report_phase |-> <<"r1">>, slide_phase |-> <<>>, text_phase |-> <<"t1", "t2">>],
     [report_phase |-> <<"r1", "r2">>,
      slide_phase |-> <<SlideForm("s1", {"r1", "r2"}), SlideForm("s2", {"r3"})>>,
      text_phase |-> <<>>]}

\* section titles, and the tables of contents the TOC call may return:
\* ordered titles, repeats allowed, one representative per renaming
Titles == <<"A", "B", "C", "D">>
FirstUse(s) ==
    \A i \in DOMAIN s :
        s[i] = 1 \/ \E k \in 1..(i - 1) : s[k] = s[i] - 1
TOCs ==
    LET shapes == UNION {[1..n -> 1..n] : n \in 0..MaxSections}
    IN {[i \in DOMAIN s |-> Titles[s[i]]] : s \in {x \in shapes : FirstUse(x)}}

Listens_TextAfterReport(h) ==
    CASE h = "REPORT" -> "PLAN"
      [] h = "SLIDE" -> "REPORT"
      [] h = "TEXT" -> "REPORT"
      [] h = "SAVE" -> "TEXT"
      [] OTHER -> "kickoff"

\* the @start / @listen wiring of the five handlers
Listens(h) ==
    CASE h = "REPORT" -> "PLAN"
      [] h = "SLIDE" -> "REPORT"
      [] h = "TEXT" -> "SLIDE"
      [] h = "SAVE" -> "TEXT"
      [] OTHER -> "kickoff"

Triggered(h) ==
    IF Listens(h) = "kickoff" THEN TRUE ELSE hpc[Listens(h)] = "returned"

\* forms of a plan phase; no plan means no forms
PhaseForms(h) ==
    IF execution_plan = None THEN <<>>
    ELSE CASE h = "REPORT" -> Val(execution_plan).report_phase
           [] h = "SLIDE" -> Val(execution_plan).slide_phase
           [] h = "TEXT" -> Val(execution_plan).text_phase
           [] OTHER -> <<>>

\* the guard at the top of generate_reports / generate_slides / generate_texts
SkipPhase(h) == execution_plan = None \/ Len(PhaseForms(h)) = 0

\* an insert into the events table that raised inside emit_event
EmitFailed(outcome) == outcome \in {"emit_failed", "emit_completed_failed"}
EmitErrors(outcome) == emit_errors + (IF EmitFailed(outcome) THEN 1 ELSE 0)

\* a Generation Gateway call issued by a handler, and whether it raised
Call(h, failed) == [by |-> h, failed |-> failed]

FlowMaps == <<section_contents, report_contents, slide_contents, text_contents>>

RECURSIVE Join(_)
Join(parts) ==
    IF parts = <<>> THEN <<>>
    ELSE IF Len(parts) = 1 THEN parts[1]
    ELSE parts[1] \o <<Separator>> \o Join(Tail(parts))

MergedContent_WithUnfinished(sections, contents) ==
    Join([i \in 1..Len(sections) |->
            IF sections[i] \in DOMAIN contents THEN contents[sections[i]]
            ELSE <<"unfinished">>])

\* the join of the contents present, in TOC order
MergedContent(sections, contents) ==
    LET ordered == SelectSeq(sections, LAMBDA t : t \in DOMAIN contents)
    IN Join([i \in 1..Len(ordered) |-> contents[ordered[i]]])

\* kickoff_async and the listener chain: a handler starts once the method
\* it listens to has returned; a raised handler aborts the flow
StartHandler(h) ==
    /\ hpc[h] = "idle"
    /\ Triggered(h)
    /\ \A g \in Handlers : hpc[g] # "raised"
    /\ hpc' = [hpc EXCEPT ![h] = "running"]
    /\ started' = Append(started, h)
    /\ snapshot' = FlowMaps
    /\ UNCHANGED <<form_keys, ids_ok, execution_plan, report_stage, report_idx,
                   tasks, report_sections, section_contents, report_contents,
                   slide_contents, text_contents, saves, calls>>
    /\ UNCHANGED emit_errors
    /\ UNCHANGED <<pollerVars, retry, result_text, final_saves>>

\* PLAN: one planning call, parsed into the ExecutionPlan
create_execution_plan ==
    /\ hpc["PLAN"] = "running"
    /\ \E outcome \in {"emit_failed", "generate_failed", "ok", "emit_completed_failed"} :
        /\ emit_errors' = EmitErrors(outcome)
        /\ calls' = IF outcome = "emit_failed" THEN calls ELSE Append(calls, Call("PLAN", outcome = "generate_failed"))
        /\ IF outcome \in {"ok", "emit_completed_failed"}
           THEN \E plan \in Plans : execution_plan' = Some(plan)
           ELSE UNCHANGED execution_plan
        /\ hpc' = [hpc EXCEPT !["PLAN"] = IF outcome = "ok" THEN "returned" ELSE "raised"]
    /\ UNCHANGED <<started, snapshot, form_keys, ids_ok, report_stage, report_idx,
                   tasks, report_sections, section_contents, report_contents,
                   slide_contents, text_contents, saves>>
    /\ UNCHANGED <<pollerVars, retry, result_text, final_saves>>

\* REPORT: skip guard, then the loop over the report forms
generate_reports ==
    /\ hpc["REPORT"] = "running"
    /\ report_stage = "entry"
    /\ IF SkipPhase("REPORT")
       THEN /\ hpc' = [hpc EXCEPT !["REPORT"] = "returned"]
            /\ UNCHANGED <<report_stage, report_idx>>
       ELSE /\ report_stage' = "toc"
            /\ report_idx' = 1
            /\ UNCHANGED hpc
    /\ UNCHANGED <<started, snapshot, form_keys, ids_ok, execution_plan, tasks,
                   report_sections, section_contents, report_contents,
                   slide_contents, text_contents, saves, calls>>
    /\ UNCHANGED emit_errors
    /\ UNCHANGED <<pollerVars, retry, result_text, final_saves>>

ReportKey == PhaseForms("REPORT")[report_idx]

RECURSIVE TotalLen(_, _)
TotalLen(d, keys) ==
    IF keys = {} THEN 0
    ELSE LET k == CHOOSE x \in keys : TRUE
         IN Len(d[k]) + TotalLen(d, keys \ {k})

\* sections declared so far in this run (MaxSections bounds their total)
SectionsDeclared == TotalLen(report_sections, DOMAIN report_sections)

TocFailureRaises_EmptyToc(outcome) == FALSE

\* the except clause of _create_report_sections: handle_error re-raises, so
\* the `return []` after it is never reached
TocFailureRaises(outcome) == outcome # "ok"

\* _create_report_sections: one TOC call; any failure raises
create_report_sections ==
    /\ hpc["REPORT"] = "running"
    /\ report_stage = "toc"
    /\ \E outcome \in {"emit_failed", "generate_failed", "ok", "emit_completed_failed"} :
        /\ emit_errors' = EmitErrors(outcome)
        /\ calls' = IF outcome = "emit_failed" THEN calls ELSE Append(calls, Call("REPORT", outcome = "generate_failed"))
        /\ IF ~TocFailureRaises(outcome)
           THEN /\ \E sections \in (IF outcome = "ok" THEN TOCs ELSE {<<>>}) :
                    /\ SectionsDeclared + Len(sections) <= MaxSections
                    /\ report_sections' = Put(report_sections, ReportKey, sections)
                /\ section_contents' = Put(section_contents, ReportKey, EmptyDict)
                /\ report_stage' = "fanout"
                /\ UNCHANGED hpc
           ELSE /\ hpc' = [hpc EXCEPT !["REPORT"] = "raised"]
                /\ UNCHANGED <<report_sections, section_contents, report_stage>>
    /\ UNCHANGED <<started, snapshot, form_keys, ids_ok, execution_plan, report_idx,
                   tasks, report_contents, slide_contents, text_contents, saves>>
    /\ UNCHANGED <<pollerVars, retry, result_text, final_saves>>

\* _generate_section_contents, first loop: one task per section
fan_out ==
    /\ hpc["REPORT"] = "running"
    /\ report_stage = "fanout"
    /\ LET sections == report_sections[ReportKey] IN
        \E ok \in BOOLEAN :
            IF ok
            THEN /\ tasks' = [j \in 1..Len(sections) |->
                                [state |-> "pending", content |-> <<>>]]
                 /\ calls' = calls \o [j \in 1..Len(sections) |-> Call("REPORT", FALSE)]
                 /\ report_stage' = IF Len(sections) = 0 THEN "merge" ELSE "fanin"
                 /\ UNCHANGED <<hpc, emit_errors>>
            ELSE /\ Len(sections) > 0
                 /\ emit_errors' = emit_errors + 1
                 /\ \E k \in 0..(Len(sections) - 1) :
                        /\ calls' = calls \o [j \in 1..k |-> Call("REPORT", FALSE)]
                        /\ tasks' = [j \in 1..k |->
                                        [state |-> "pending", content |-> <<>>]]
                 /\ hpc' = [hpc EXCEPT !["REPORT"] = "raised"]
                 /\ UNCHANGED report_stage
    /\ UNCHANGED <<started, snapshot, form_keys, ids_ok, execution_plan, report_idx,
                   report_sections, section_contents, report_contents,
                   slide_contents, text_contents, saves>>
    /\ UNCHANGED <<pollerVars, retry, result_text, final_saves>>

\* execute_research_section finishes: its text, or an exception
section_task_done(j) ==
    /\ hpc["REPORT"] = "running"
    /\ report_stage = "fanin"
    /\ j \in DOMAIN tasks
    /\ tasks[j].state = "pending"
    /\ \E res \in {"ok", "err"} : \E blank \in BOOLEAN :
        tasks' = [tasks EXCEPT ![j] =
                    [state |-> res,
                     content |-> IF blank \/ res = "err" THEN <<>> ELSE <<ToString(j)>>]]
    /\ UNCHANGED <<hpc, started, snapshot, form_keys, ids_ok, execution_plan,
                   report_stage, report_idx, report_sections, section_contents,
                   report_contents, slide_contents, text_contents, saves, calls>>
    /\ UNCHANGED emit_errors
    /\ UNCHANGED <<pollerVars, retry, result_text, final_saves>>

AllHandled_FirstCompleted(ts) == \E i \in DOMAIN ts : ts[i].state = "handled"

\* the while condition of the fan-in loop: pending_tasks is empty
AllHandled(ts) == \A i \in DOMAIN ts : ts[i].state = "handled"

\* the fan-in loop handles one finished task: store its text, emit the
\* completion event, save the checkpoint; a failed task raises
handle_done_task(j) ==
    /\ hpc["REPORT"] = "running"
    /\ report_stage = "fanin"
    /\ j \in DOMAIN tasks
    /\ tasks[j].state \in {"ok", "err"}
    /\ LET sections == report_sections[ReportKey]
           title == sections[j]
           contents == Put(section_contents[ReportKey], title, tasks[j].content)
           merged == MergedContent(sections, contents)
           handled == [tasks EXCEPT ![j].state = "handled"]
       IN
        IF tasks[j].state = "err"
        THEN /\ hpc' = [hpc EXCEPT !["REPORT"] = "raised"]
             /\ tasks' = [tasks EXCEPT ![j].state = "failed"]
             /\ UNCHANGED <<section_contents, report_contents, saves, report_stage,
                            emit_errors>>
        ELSE
          /\ section_contents' = [section_contents EXCEPT ![ReportKey] = contents]
          /\ \E outcome \in {"emit_failed", "ok", "save_failed"} :
              /\ emit_errors' = EmitErrors(outcome)
              /\ CASE outcome = "emit_failed" ->
                       /\ hpc' = [hpc EXCEPT !["REPORT"] = "raised"]
                       /\ UNCHANGED <<tasks, report_contents, saves, report_stage>>
                   [] outcome = "save_failed" ->
                       /\ ids_ok /\ merged # <<>>
                       /\ report_contents' = Put(report_contents, ReportKey, merged)
                       /\ hpc' = [hpc EXCEPT !["REPORT"] = "raised"]
                       /\ UNCHANGED <<tasks, saves, report_stage>>
                   [] OTHER ->
                       /\ report_contents' = Put(report_contents, ReportKey, merged)
                       /\ saves' = IF ids_ok /\ merged # <<>>
                                   THEN Append(saves, [final |-> FALSE,
                                           payload |-> Put(EmptyDict, ReportKey, merged)])
                                   ELSE saves
                       /\ tasks' = handled
                       /\ report_stage' = IF AllHandled(handled) THEN "merge" ELSE "fanin"
                       /\ UNCHANGED hpc
    /\ UNCHANGED <<started, snapshot, form_keys, ids_ok, execution_plan, report_idx,
                   report_sections, slide_contents, text_contents, calls>>
    /\ UNCHANGED <<pollerVars, retry, result_text, final_saves>>

\* _merge_report_sections, then the next report form or the return
merge_report_sections ==
    /\ hpc["REPORT"] = "running"
    /\ report_stage = "merge"
    /\ LET sections == report_sections[ReportKey]
           merged == MergedContent(sections, section_contents[ReportKey])
       IN \E outcome \in {"emit_failed", "ok", "emit_completed_failed"} :
            /\ emit_errors' = EmitErrors(outcome)
            /\ report_contents' = IF outcome = "emit_failed" THEN report_contents
                                  ELSE Put(report_contents, ReportKey, merged)
            /\ IF outcome # "ok"
               THEN /\ hpc' = [hpc EXCEPT !["REPORT"] = "raised"]
                    /\ UNCHANGED <<report_stage, report_idx>>
               ELSE IF report_idx < Len(PhaseForms("REPORT"))
               THEN /\ report_idx' = report_idx + 1
                    /\ report_stage' = "toc"
                    /\ UNCHANGED hpc
               ELSE /\ hpc' = [hpc EXCEPT !["REPORT"] = "returned"]
                    /\ report_stage' = "entry"
                    /\ UNCHANGED report_idx
    /\ UNCHANGED <<started, snapshot, form_keys, ids_ok, execution_plan, tasks,
                   report_sections, section_contents, slide_contents,
                   text_contents, saves, calls>>
    /\ UNCHANGED <<pollerVars, retry, result_text, final_saves>>

\* report keys in the order report_contents received them
ReportKeysInOrder ==
    SelectSeq(PhaseForms("REPORT"), LAMBDA k : k \in DOMAIN report_contents)

\* the slide generations _create_slides performs for one source; with a
\* report key only the forms that name it as a dependency
SlidesFor(report_key) ==
    LET forms == PhaseForms("SLIDE")
        chosen == SelectSeq(forms, LAMBDA f :
                     report_key = None \/ Val(report_key) \in f.dependencies)
    IN [i \in 1..Len(chosen) |-> [key |-> chosen[i].key, source |-> report_key]]

RECURSIVE SlideJobsOver(_)
SlideJobsOver(keys) ==
    IF keys = <<>> THEN <<>>
    ELSE SlidesFor(Some(Head(keys))) \o SlideJobsOver(Tail(keys))

\* the slide generations generate_slides performs, in order
SlideJobs ==
    IF DOMAIN report_contents # {} THEN SlideJobsOver(ReportKeysInOrder)
    ELSE SlidesFor(None)

\* generate_slide_from_report: a slide made of the content it was given
PreviousOutputs == <<"previous_outputs">>
SlideSource_AlwaysPrevious(source) == PreviousOutputs
SlideSource(source) ==
    IF source = None THEN PreviousOutputs ELSE report_contents[Val(source)]
SlideText(content) == <<"slide of">> \o content

RECURSIVE PutAll(_, _)
PutAll(d, jobs) ==
    IF jobs = <<>> THEN d
    ELSE PutAll(Put(d, Head(jobs).key, SlideText(SlideSource(Head(jobs).source))),
                Tail(jobs))

\* SLIDE: skip guard, then one generation per job; the first failure raises
generate_slides ==
    /\ hpc["SLIDE"] = "running"
    /\ IF SkipPhase("SLIDE")
       THEN /\ hpc' = [hpc EXCEPT !["SLIDE"] = "returned"]
            /\ UNCHANGED <<slide_contents, calls, emit_errors>>
       ELSE \E n \in 0..Len(SlideJobs) : \E outcome \in {"ok", "emit_failed", "generate_failed"} :
            /\ outcome = "ok" => n = Len(SlideJobs)
            /\ outcome = "generate_failed" => n < Len(SlideJobs)
            /\ outcome = "emit_failed" => Len(SlideJobs) > 0
            /\ emit_errors' = EmitErrors(outcome)
            /\ slide_contents' = PutAll(slide_contents, SubSeq(SlideJobs, 1, n))
            /\ calls' = calls \o [j \in 1..(IF outcome = "generate_failed" THEN n + 1 ELSE n)
                                    |-> Call("SLIDE", j = n + 1)]
            /\ hpc' = [hpc EXCEPT !["SLIDE"] = IF outcome = "ok" THEN "returned" ELSE "raised"]
    /\ UNCHANGED <<started, snapshot, form_keys, ids_ok, execution_plan, report_stage,
                   report_idx, tasks, report_sections, section_contents,
                   report_contents, text_contents, saves>>
    /\ UNCHANGED <<pollerVars, retry, result_text, final_saves>>

\* text forms of the plan that match a form type of the request
MatchedForms == SelectSeq(PhaseForms("TEXT"), LAMBDA k : k \in form_keys)

\* responses of the text generation call: a JSON object, a JSON value that
\* is not an object, or text that is not JSON, bare or inside a code fence
Bodies == {"object", "array", "prose"}
Fenced(body) == <<"fence_json", body, "fence">>
Responses == {<<b>> : b \in Bodies} \cup {Fenced(b) : b \in Bodies}

\* clean_json_response: the inside of a code fence, else the text itself
clean_json_response(raw_text) ==
    IF Len(raw_text) = 3 /\ raw_text[1] = "fence_json" /\ raw_text[3] = "fence"
    THEN <<raw_text[2]>>
    ELSE raw_text

\* json.loads: whether the text decodes, and what it decodes to
JsonDecodes(text) == text \in {<<"object">>, <<"array">>}
JsonIsDict(text) == text = <<"object">>
JsonDict(text) == Put(EmptyDict, "t1", <<"value">>)

\* what _parse_all_text_results stores in text_contents
parse_all_text_results(raw_result) ==
    LET cleaned_result == clean_json_response(raw_result)
    IN  IF ~JsonDecodes(cleaned_result)
        THEN Put(EmptyDict, "text", raw_result)
        ELSE IF JsonIsDict(cleaned_result)
             THEN JsonDict(cleaned_result)
             ELSE Put(EmptyDict, "text", cleaned_result)

\* TEXT: skip guard, then one generation for all matched forms
generate_texts ==
    /\ hpc["TEXT"] = "running"
    /\ IF SkipPhase("TEXT")
       THEN /\ hpc' = [hpc EXCEPT !["TEXT"] = "returned"]
            /\ UNCHANGED <<text_contents, calls, emit_errors, result_text>>
       ELSE \E outcome \in {"emit_failed", "generate_failed", "ok", "emit_completed_failed"} :
            /\ emit_errors' = EmitErrors(outcome)
            /\ IF outcome = "emit_failed" \/ MatchedForms = <<>>
               THEN UNCHANGED <<text_contents, calls, result_text>>
               ELSE /\ calls' = Append(calls, Call("TEXT", outcome = "generate_failed"))
                    /\ IF outcome = "generate_failed"
                       THEN UNCHANGED <<text_contents, result_text>>
                       ELSE \E response \in Responses :
                            /\ result_text' = Some(response)
                            /\ text_contents' = parse_all_text_results(response)
            /\ outcome = "generate_failed" => MatchedForms # <<>>
            /\ hpc' = [hpc EXCEPT !["TEXT"] = IF outcome = "ok" THEN "returned" ELSE "raised"]
    /\ UNCHANGED <<started, snapshot, form_keys, ids_ok, execution_plan, report_stage,
                   report_idx, tasks, report_sections, section_contents,
                   report_contents, slide_contents, saves>>
    /\ UNCHANGED <<pollerVars, retry, final_saves>>

AllResults_WithoutTexts == slide_contents @@ report_contents

\* {**report_contents, **slide_contents, **text_contents}
AllResults == text_contents @@ slide_contents @@ report_contents

\* SAVE: the final write of all results, made only for a job that carries
\* its ids and has some content
save_final_results ==
    /\ hpc["SAVE"] = "running"
    /\ IF ids_ok /\ DOMAIN AllResults # {}
       THEN \E ok \in BOOLEAN :
            /\ final_saves' = final_saves + 1
            /\ saves' = IF ok THEN Append(saves, [final |-> TRUE, payload |-> AllResults])
                        ELSE saves
            /\ hpc' = [hpc EXCEPT !["SAVE"] = IF ok THEN "returned" ELSE "raised"]
       ELSE /\ hpc' = [hpc EXCEPT !["SAVE"] = "returned"]
            /\ UNCHANGED <<saves, final_saves>>
    /\ UNCHANGED <<started, snapshot, form_keys, ids_ok, execution_plan, report_stage,
                   report_idx, tasks, report_sections, section_contents,
                   report_contents, slide_contents, text_contents, calls>>
    /\ UNCHANGED emit_errors
    /\ UNCHANGED <<pollerVars, retry, result_text>>

\* a flow run: a request with one text form type, with or without the ids
InitFlow ==
    /\ InitState
    /\ quota = [p \in Pollers |-> 0]
    /\ FlowInitState
    /\ form_keys = {"t1"}
    /\ ids_ok \in BOOLEAN
    /\ retry = RetryIdle

NextFlow ==
    \/ \E h \in Handlers : StartHandler(h)
    \/ create_execution_plan
    \/ generate_reports
    \/ create_report_sections
    \/ fan_out
    \/ \E j \in 1..MaxSections : section_task_done(j)
    \/ \E j \in 1..MaxSections : handle_done_task(j)
    \/ merge_report_sections
    \/ generate_slides
    \/ generate_texts
    \/ save_final_results

SpecFlow == InitFlow /\ [][NextFlow]_vars

\* the steps of the poller process and of the user
PollerStep ==
    \/ \E p \in Pollers :
        \/ fetch_pending_task(p)
        \/ prepare_task_inputs(p)
        \/ spawn_worker(p)
        \/ wait_worker(p)
        \/ mark_failed(p)
        \/ emit_crew_completed(p)
        \/ mark_completed(p)
        \/ execute_worker_process_except(p)
        \/ process_new_task_except(p)
        \/ process_new_task_finally(p)
        \/ polling_except(p)
        \/ polling_sleep(p)
        \/ ProcessExited(p)
        \/ watch_start(p)
        \/ watch_poll(p)
    \/ \E t \in Tasks : UserSetStatus(t)

\* the worker is a black box that exits with some code
Next ==
    \/ PollerStep
    \/ \E p \in Pollers : WorkerExit(p)

Spec == Init /\ [][Next]_vars

SpecScaled == InitScaled /\ [][Next]_vars

\* the coroutines of one poller process: the polling loop with the
\* supervisor it awaits, and the monitor task
LoopStep(p) ==
    \/ fetch_pending_task(p)
    \/ prepare_task_inputs(p)
    \/ spawn_worker(p)
    \/ wait_worker(p)
    \/ mark_failed(p)
    \/ emit_crew_completed(p)
    \/ mark_completed(p)
    \/ execute_worker_process_except(p)
    \/ process_new_task_except(p)
    \/ process_new_task_finally(p)
    \/ polling_except(p)
    \/ polling_sleep(p)

\* the event loop runs every coroutine that is ready and records the exit
\* status of a child that has ended; a running worker ends at some point
Fairness ==
    \A p \in Pollers :
        /\ WF_vars(LoopStep(p))
        /\ WF_vars(ProcessExited(p))
        /\ WF_vars(watch_start(p))
        /\ WF_vars(watch_poll(p))
        /\ WF_vars(WorkerExit(p))

SpecLive == Init /\ [][Next]_vars /\ Fairness

\* the user cancels a task (or asks for feedback) while its worker runs
UserCancelsRunning(t) ==
    /\ \E p \in Pollers : row[p] = Some(t) /\ pc[p] = "wait" /\ proc[p] = "running"
    /\ UserSetStatus(t)

\* the poller process with a user who cancels only running tasks
NextCancel ==
    \/ \E p \in Pollers :
        \/ LoopStep(p)
        \/ ProcessExited(p)
        \/ watch_start(p)
        \/ watch_poll(p)
        \/ WorkerExit(p)
    \/ \E t \in Tasks : UserCancelsRunning(t)

SpecCancel == Init /\ [][NextCancel]_vars

\* ------------------------------------------------------------------------
\* process start: lifespan
\* ------------------------------------------------------------------------
InitFailureRaised_Swallowed(ok) == FALSE

\* initialize_connections re-raises a failure of initialize_db
InitFailureRaised(ok) == ~ok

\* lifespan: initialize_connections, then the polling task is created;
\* initialize_db creates the client unless the store settings are missing
\* or create_client fails
lifespan(p) ==
    /\ pc[p] = "start"
    /\ \E ok \in BOOLEAN :
        /\ db_client' = [db_client EXCEPT ![p] = ok]
        /\ runLog' = Log(p, IF ok THEN <<"connections_initialized">> ELSE <<"init_failed">>)
        /\ pc' = [pc EXCEPT ![p] = IF InitFailureRaised(ok) THEN "startup_failed" ELSE "poll"]
    /\ UNCHANGED <<todolist, row, exc, supervisorVars, workerVars, watchVars,
                   quota, polls, sleeps>>
    /\ UNCHANGED <<flowVars, retry>>

\* a poller process before its lifespan has run
InitStart ==
    /\ todolist = [t \in Tasks |-> [draft_status |-> "PENDING", consumer |-> None]]
    /\ ModuleState
    /\ pc = [p \in Pollers |-> "start"]
    /\ db_client = [p \in Pollers |-> FALSE]
    /\ quota = [p \in Pollers |-> IF p = "A" THEN MaxPolls ELSE 0]
    /\ FlowIdle

NextStart ==
    \/ \E p \in Pollers : lifespan(p)
    \/ Next

SpecStart == InitStart /\ [][NextStart]_vars

\* ------------------------------------------------------------------------
\* One job end to end: poller "A" leases a task and its worker process
\* runs the flow; the worker's exit code is what worker.py makes of it
\* ------------------------------------------------------------------------
JobPoller == "A"

WorkerAlive == proc[JobPoller] = "running"
FlowRaised == \E h \in Handlers : hpc[h] = "raised"
FlowOver_BeforeSave == FlowRaised \/ hpc["TEXT"] = "returned"

\* kickoff_async is over: a handler raised, or the last handler returned
FlowOver == FlowRaised \/ hpc["SAVE"] = "returned"

MainExitCode_AlwaysZero(raised) == 0

\* asyncio.run(main_async(inputs)): an exception out of kickoff_async ends
\* the interpreter with code 1, a normal return with code 0
MainExitCode(raised) == IF raised THEN 1 ELSE 0

\* the PipelineState lives in the worker process and is gone when the
\* process ends; what was saved stays in the store, and how far the handlers
\* got and how many event inserts failed is kept as the record of the run
StateDiscarded ==
    /\ snapshot' = <<EmptyDict, EmptyDict, EmptyDict, EmptyDict>>
    /\ execution_plan' = None
    /\ report_stage' = "entry"
    /\ report_idx' = 0
    /\ tasks' = <<>>
    /\ report_sections' = EmptyDict
    /\ section_contents' = EmptyDict
    /\ report_contents' = EmptyDict
    /\ slide_contents' = EmptyDict
    /\ text_contents' = EmptyDict
    /\ calls' = <<>>
    /\ result_text' = None
    /\ UNCHANGED <<hpc, started, form_keys, ids_ok, saves, final_saves, emit_errors>>

worker_main ==
    /\ WorkerAlive
    /\ FlowOver
    /\ exitcode' = [exitcode EXCEPT ![JobPoller] = MainExitCode(FlowRaised)]
    /\ proc' = [proc EXCEPT ![JobPoller] = "exited"]
    /\ StateDiscarded
    /\ UNCHANGED <<todolist, pc, row, exc, supervisorVars, returncode, signals,
                   watchVars, quota, db_client, polls, sleeps, runLog>>
    /\ UNCHANGED retry

\* SIGTERM from terminate_current_worker ends the worker wherever it is
worker_killed ==
    /\ WorkerAlive
    /\ signals[JobPoller] > 0
    /\ \E code \in KilledExitCodes :
        exitcode' = [exitcode EXCEPT ![JobPoller] = code]
    /\ proc' = [proc EXCEPT ![JobPoller] = "exited"]
    /\ StateDiscarded
    /\ UNCHANGED <<todolist, pc, row, exc, supervisorVars, returncode, signals,
                   watchVars, quota, db_client, polls, sleeps, runLog>>
    /\ UNCHANGED retry

\* the flow advances only inside a live worker
worker_flow == WorkerAlive /\ NextFlow

\* one task is pending, the others were completed earlier; the task's row
\* names a form, so the worker's inputs carry todo_id and proc_form_id
InitJob ==
    /\ todolist = [t \in Tasks |->
                    [draft_status |-> IF t = 1 THEN "PENDING" ELSE "COMPLETED",
                     consumer |-> None]]
    /\ PollerIdle
    /\ quota = [p \in Pollers |-> IF p = JobPoller THEN 1 ELSE 0]
    /\ FlowInitState
    /\ form_keys = {"t1"}
    /\ ids_ok = TRUE
    /\ retry = RetryIdle

NextJob ==
    \/ PollerStep
    \/ worker_flow
    \/ worker_main
    \/ worker_killed

SpecJob == InitJob /\ [][NextJob]_vars

\* ------------------------------------------------------------------------
\* Properties
\* ------------------------------------------------------------------------
Has(p, e) == \E i \in DOMAIN runLog[p] : runLog[p][i] = e
Count(p, e) == Cardinality({i \in DOMAIN runLog[p] : runLog[p][i] = e})
Before(p, a, b) ==
    \E i, j \in DOMAIN runLog[p] : i < j /\ runLog[p][i] = a /\ runLog[p][j] = b

\* process_new_task is over for the row the last lease attempt returned
RunOver(p) == row[p] # None /\ pc[p] \in {"poll_except", "sleep", "poll"}
TerminalWritten(p) == Has(p, "markCompleted") \/ Has(p, "markFailed")
WorkerRan(p) == Has(p, "worker_started")

\* C1: the poller makes no lease attempt (and the supervisor starts no new
\* worker) while a worker process it spawned is still running, so a poller
\* never has two live workers.
C1_NoLeaseWhileWorkerRuns ==
    \A p \in Pollers :
        pc[p] \in {"poll", "prepare", "spawn"} => proc[p] # "running"

C1_Witness ==
    \E p \in Pollers :
        pc[p] = "poll" /\ WorkerRan(p) /\ proc[p] = "exited" /\ polls[p] < quota[p]

C3_LeaseExclusive ==
    [][\A p, q \in Pollers : \A t \in Tasks :
        (p # q /\ row[p] = Some(t) /\ pc[p] \notin {"poll", "sleep", "poll_except"}
              /\ ~TerminalWritten(p) /\ polls'[q] > polls[q])
            => row'[q] # Some(t)]_vars

C3_Witness ==
    \E p, q \in Pollers :
        /\ p # q
        /\ row[p] # None /\ row[q] # None /\ row[p] # row[q]
        /\ pc[p] = "wait" /\ pc[q] = "prepare"
        /\ ~TerminalWritten(p)

\* C4 as stated: a run whose worker exited with code 0 without a termination
\* request emits exactly one crew_completed event, then marks the task
\* COMPLETED, and never marks it FAILED.
C4_ExitZeroCompletes ==
    \A p \in Pollers :
        (RunOver(p) /\ WorkerRan(p) /\ returncode[p] = Some(0)
                    /\ ~Has(p, "USER_CANCELLED"))
            => /\ Count(p, "crew_completed") = 1
               /\ Before(p, "crew_completed", "markCompleted")
               /\ ~Has(p, "markFailed")

\* C5: a run whose worker exited non-zero without a termination request marks
\* the task FAILED, emits no crew_completed event and returns without raising.
C5_NonZeroExitFails ==
    \A p \in Pollers :
        (RunOver(p) /\ WorkerRan(p) /\ returncode[p] # Some(0)
                    /\ ~Has(p, "USER_CANCELLED"))
            => /\ Has(p, "markFailed")
               /\ ~Has(p, "markCompleted")
               /\ ~Has(p, "crew_completed")
               /\ Has(p, "returned") /\ ~Has(p, "raised")
               /\ Has(p, "updated") => todolist[Val(row[p])].draft_status = "FAILED"

C5_Witness ==
    \E p \in Pollers :
        /\ RunOver(p) /\ WorkerRan(p) /\ returncode[p] = Some(1)
        /\ Has(p, "markFailed") /\ Has(p, "returned")

\* C6: once the termination flag is set the supervisor resolves the run as
\* cancelled whatever the exit code: no COMPLETED or FAILED update, no
\* crew_completed event, no exception.
C6_TerminatedIsCancelled ==
    \A p \in Pollers :
        (worker_terminated_by_us[p] \/ Has(p, "USER_CANCELLED"))
            => /\ worker_terminated_by_us[p] => pc[p] \in {"wait", "pnt_finally"}
               /\ ~TerminalWritten(p)
               /\ ~Has(p, "crew_completed")
               /\ ~exc[p] /\ ~Has(p, "raised")

C6_Witness ==
    \E p \in Pollers :
        /\ RunOver(p) /\ Has(p, "USER_CANCELLED") /\ Has(p, "returned")
        /\ returncode[p] = Some(0)

\* C7: a run that fails before a worker is started (input preparation or
\* spawn raised) marks the task FAILED and raises out of process_new_task;
\* the polling loop catches the error and goes on to sleep and poll again.
C7_PrepareFailureIsTaskLocal ==
    \A p \in Pollers :
        /\ pc[p] # "stopped"
        /\ (RunOver(p) /\ ~WorkerRan(p))
            => /\ Has(p, "markFailed")
               /\ Has(p, "raised")
               /\ Has(p, "updated") => todolist[Val(row[p])].draft_status = "FAILED"
               /\ pc[p] \in {"sleep", "poll"} => Has(p, "polling_error")

C7_Witness ==
    \E p \in Pollers :
        /\ RunOver(p) /\ ~WorkerRan(p) /\ pc[p] = "poll"
        /\ Has(p, "task_prepare_failed") /\ ~Has(p, "worker_run_failed")
        /\ Has(p, "polling_error")

\* C8: the monitor signals a worker at most once, and once it has signalled
\* it polls no more, however long the status stays CANCELLED/FB_REQUESTED.
C8_AtMostOneSignal ==
    \A p \in Pollers :
        /\ signals[p] <= 1
        /\ signals[p] >= 1 => watch_task[p] \in {"done", "cancelled"}

C8_Witness ==
    \E p \in Pollers :
        /\ signals[p] = 1 /\ proc[p] = "running" /\ watch_task[p] = "done"
        /\ todolist[Val(watch_todo[p])].draft_status \in CancelStatuses

\* C9: the polling loop never stops, and a lease attempt that is not the
\* first is preceded by exactly one sleep since the previous attempt,
\* whether that iteration found nothing, finished a task or failed.
C9_OneSleepPerIteration ==
    \A p \in Pollers :
        /\ pc[p] # "stopped"
        /\ sleeps[p] <= 1
        /\ (pc[p] = "poll" /\ polls[p] >= 1) => sleeps[p] = 1

C9_Witness ==
    \E p \in Pollers :
        /\ pc[p] = "poll" /\ polls[p] >= 1 /\ polls[p] < quota[p]
        /\ row[p] # None /\ Has(p, "polling_error") /\ sleeps[p] = 1
\* ------------------------------------------------------------------------
\* Pipeline Orchestrator properties
\* ------------------------------------------------------------------------
PhaseOrder == <<"PLAN", "REPORT", "SLIDE", "TEXT", "SAVE">>
PhaseIndex(h) == CHOOSE i \in 1..Len(PhaseOrder) : PhaseOrder[i] = h
GatewayCallsBy(h) == Len(SelectSeq(calls, LAMBDA c : c.by = h))
LastStarted == started[Len(started)]
ZeroForms(h) == execution_plan # None /\ Len(PhaseForms(h)) = 0

\* C10: the handlers start in the order PLAN, REPORT, SLIDE, TEXT, SAVE,
\* each only after the previous handler has returned; a REPORT, SLIDE or
\* TEXT handler whose plan phase has zero forms returns (it never raises)
\* having made no Generation Gateway call and left the four content maps as
\* they were when it started, and the next handler can then start.
C10_PhaseOrderAndSkip ==
    /\ started = SubSeq(PhaseOrder, 1, Len(started))
    /\ \A h \in Handlers :
        hpc[h] # "idle" =>
            \A i \in 1..(PhaseIndex(h) - 1) : hpc[PhaseOrder[i]] = "returned"
    /\ \A h \in {"REPORT", "SLIDE", "TEXT"} :
        (hpc[h] # "idle" /\ ZeroForms(h)) =>
            /\ hpc[h] \in {"running", "returned"}
            /\ GatewayCallsBy(h) = 0
            /\ LastStarted = h => FlowMaps = snapshot
            /\ (hpc[h] = "returned" /\ LastStarted = h) =>
                    ENABLED StartHandler(PhaseOrder[PhaseIndex(h) + 1])

\* a run in which TEXT had no forms and was skipped after REPORT and SLIDE
\* had generated content, and SAVE then ran to the end
C10_Witness ==
    /\ started = PhaseOrder
    /\ hpc["SAVE"] = "returned"
    /\ ZeroForms("TEXT")
    /\ GatewayCallsBy("TEXT") = 0
    /\ DOMAIN report_contents # {}
    /\ DOMAIN slide_contents # {}

\* ------------------------------------------------------------------------
\* The retry loop of _async_retry, generate_toc (and the other generation
\* calls) and _call_openai_api_async._retry
\* ------------------------------------------------------------------------
\* handle_error(..., raise_error=...) after the loop
FatalSite(site) == site \in {"generate_toc", "_call_openai_api_async._retry"}

LoopAgain_OneMore(attempt) == attempt <= Retries + 1

\* for attempt in range(1, retries + 1)
LoopAgain(attempt) == attempt <= Retries

\* one iteration: invoke the wrapped function; return its value, or log,
\* sleep and go round again
retry_attempt ==
    /\ retry.pc = "loop"
    /\ LoopAgain(retry.attempt)
    /\ retry.calls < Len(retry.outcomes)
    /\ LET n == retry.calls + 1 IN
        IF retry.outcomes[n] = "ok"
        THEN retry' = [retry EXCEPT !.calls = n, !.pc = "returned",
                                    !.result = Some([value |-> Some(n)])]
        ELSE retry' = [retry EXCEPT !.calls = n, !.sleeps = @ + 1, !.attempt = @ + 1]
    /\ UNCHANGED <<pollerVars, flowVars>>

\* the loop is exhausted: the last handle_error raises, or None is returned
retry_exhausted ==
    /\ retry.pc = "loop"
    /\ ~LoopAgain(retry.attempt)
    /\ IF FatalSite(retry.site)
       THEN retry' = [retry EXCEPT !.pc = "raised", !.raised = @ + 1]
       ELSE retry' = [retry EXCEPT !.pc = "returned",
                                   !.result = Some([value |-> None])]
    /\ UNCHANGED <<pollerVars, flowVars>>

InitRetry ==
    /\ InitState
    /\ quota = [p \in Pollers |-> 0]
    /\ FlowInitState
    /\ form_keys = {}
    /\ ids_ok = FALSE
    /\ \E site \in RetrySites : \E outcomes \in [1..MaxOutcomes -> {"ok", "err"}] :
        retry = RetryStart(site, outcomes)

NextRetry ==
    \/ retry_attempt
    \/ retry_exhausted

SpecRetry == InitRetry /\ [][NextRetry]_vars

\* ------------------------------------------------------------------------
\* The Store Gateway functions of core/database.py: the reads that wrap
\* their query in _async_retry, and the functions that issue it directly
\* ------------------------------------------------------------------------
RetriedCalls == {"fetch_pending_task", "fetch_task_status", "fetch_done_data"}
DirectCalls == {"update_task_completed", "update_task_error", "save_task_result",
                "fetch_participants_info", "fetch_form_types"}
StoreCalls == RetriedCalls \cup DirectCalls

\* the except clause of a direct function: the two status updates log and
\* return, the others raise
DirectCallRaises(site) == site \notin {"update_task_completed", "update_task_error"}

\* a function that is about to issue its query, once
DirectStart(site, outcomes) == [RetryStart(site, outcomes) EXCEPT !.pc = "call"]

\* the single invocation of a direct function
store_call_direct ==
    /\ retry.pc = "call"
    /\ IF retry.outcomes[1] = "ok"
       THEN retry' = [retry EXCEPT !.calls = 1, !.pc = "returned",
                                   !.result = Some([value |-> Some(1)])]
       ELSE IF DirectCallRaises(retry.site)
            THEN retry' = [retry EXCEPT !.calls = 1, !.pc = "raised", !.raised = @ + 1]
            ELSE retry' = [retry EXCEPT !.calls = 1, !.pc = "returned",
                                        !.result = Some([value |-> None])]
    /\ UNCHANGED <<pollerVars, flowVars>>

InitStore ==
    /\ InitState
    /\ quota = [p \in Pollers |-> 0]
    /\ FlowInitState
    /\ form_keys = {}
    /\ ids_ok = FALSE
    /\ \E site \in StoreCalls : \E outcomes \in [1..MaxOutcomes -> {"ok", "err"}] :
        retry = IF site \in RetriedCalls THEN RetryStart(site, outcomes)
                ELSE DirectStart(site, outcomes)

NextStore ==
    \/ retry_attempt
    \/ retry_exhausted
    \/ store_call_direct

SpecStore == InitStore /\ [][NextStore]_vars

\* ------------------------------------------------------------------------
\* End-to-end properties of one job
\* ------------------------------------------------------------------------
NoLaterPhase ==
    \A h, g \in Handlers :
        (hpc[h] = "raised" /\ PhaseIndex(g) > PhaseIndex(h)) => hpc[g] = "idle"
NoFinalSave == \A i \in DOMAIN saves : ~saves[i].final
JobOver == RunOver(JobPoller) /\ WorkerRan(JobPoller)

\* C11 as stated: once a handler has raised, no later handler runs, no final
\* save is issued, the worker's exit code is non-zero, and the supervisor
\* marks the task FAILED.
C11_PhaseFailureFailsTask ==
    FlowRaised =>
        /\ NoLaterPhase
        /\ NoFinalSave
        /\ proc[JobPoller] = "exited" => exitcode[JobPoller] # 0
        /\ JobOver => Has(JobPoller, "markFailed")

\* C11 amended: as above, but the supervisor marks the task FAILED unless
\* it had itself signalled the worker on a user cancellation, in which case
\* it resolves the run as cancelled and writes nothing.
C11_PhaseFailureFailsTaskUnlessCancelled ==
    FlowRaised =>
        /\ NoLaterPhase
        /\ NoFinalSave
        /\ proc[JobPoller] = "exited" => exitcode[JobPoller] # 0
        /\ JobOver =>
            IF Has(JobPoller, "USER_CANCELLED")
            THEN ~TerminalWritten(JobPoller)
            ELSE /\ Has(JobPoller, "markFailed")
                 /\ ~Has(JobPoller, "markCompleted")
                 /\ Has(JobPoller, "updated") =>
                        todolist[Val(row[JobPoller])].draft_status = "FAILED"

\* REPORT raised after a checkpoint was saved; the worker exited with code 1
\* and the FAILED update reached the store
C11_Witness ==
    /\ hpc["REPORT"] = "raised"
    /\ saves # <<>>
    /\ JobOver
    /\ returncode[JobPoller] = Some(1)
    /\ Has(JobPoller, "updated")
    /\ todolist[Val(row[JobPoller])].draft_status = "FAILED"

\* ------------------------------------------------------------------------
\* Section Executor properties
\* ------------------------------------------------------------------------
\* the report the section tasks in `tasks` belong to
TasksKey ==
    IF report_stage \in {"fanin", "merge"} THEN ReportKey
    ELSE IF report_stage = "entry" THEN PhaseForms("REPORT")[Len(PhaseForms("REPORT"))]
    ELSE PhaseForms("REPORT")[report_idx - 1]
TasksValid ==
    /\ hpc["REPORT"] \in {"running", "returned"}
    /\ ~SkipPhase("REPORT")
    /\ report_stage \in {"toc", "fanout"} => report_idx > 1
\* positions of the TOC whose section task has been processed, in TOC order
Finished ==
    SelectSeq([j \in 1..Len(tasks) |-> j], LAMBDA j : tasks[j].state = "handled")
\* the separator-join of the texts of the finished sections, in TOC order
ExpectedMerge == Join([i \in 1..Len(Finished) |-> tasks[Finished[i]].content])

\* C12: whatever the TOC and the completion order, the merged string of a
\* report (after every checkpoint and after the final merge) is the
\* separator-join of the texts of exactly the sections finished so far, in
\* TOC order.
C12_MergeInTocOrder ==
    (TasksValid /\ TasksKey \in DOMAIN report_contents
        /\ (Finished # <<>> \/ report_stage # "fanin"))
        => report_contents[TasksKey] = ExpectedMerge

\* the checkpoints (final = FALSE) saved for a report key, oldest first
CheckpointsOf(key) ==
    SelectSeq(saves, LAMBDA sv : ~sv.final /\ key \in DOMAIN sv.payload)
NonePending == \A j \in DOMAIN tasks : tasks[j].state # "pending"

\* C13: for a job that carries its ids, one checkpoint is saved after each
\* section task that finishes: as many checkpoints as finished sections, the
\* latest holding exactly the sections finished so far, and N checkpoints
\* once all N section tasks of the report have finished.
C13_CheckpointPerSection ==
    ids_ok =>
        /\ (TasksValid /\ report_stage \in {"fanin", "merge"}) =>
            /\ Len(CheckpointsOf(TasksKey)) = Len(Finished)
            /\ Finished # <<>> =>
                CheckpointsOf(TasksKey)[Len(Finished)].payload[TasksKey] = ExpectedMerge
        /\ (hpc["REPORT"] = "raised" /\ report_stage = "fanin" /\ NonePending) =>
            Len(CheckpointsOf(ReportKey)) = Len(tasks)

\* the text line 289 would store for a failed section
Placeholder == <<"section failed">>

\* C14: a section task that raised leaves a placeholder under its title and
\* does not make the REPORT phase raise; the other sections are still
\* processed.
C14_SectionFailureContained ==
    \A j \in DOMAIN tasks :
        tasks[j].state = "failed" =>
            /\ hpc["REPORT"] # "raised"
            /\ LET title == report_sections[ReportKey][j]
               IN /\ title \in DOMAIN section_contents[ReportKey]
                  /\ section_contents[ReportKey][title] = Placeholder

\* reports whose TOC step is behind them
TocDone == DOMAIN report_sections
\* reports whose final merge is behind them
Merged(k) ==
    /\ k \in DOMAIN report_sections
    /\ \/ hpc["REPORT"] = "returned"
       \/ /\ hpc["REPORT"] = "running"
          /\ \E i \in 1..(report_idx - 1) : PhaseForms("REPORT")[i] = k
TocCallFailed ==
    \E i \in DOMAIN calls : calls[i].by = "REPORT" /\ calls[i].failed

C17_EmissionNeverFatal ==
    /\ emit_errors > 0 => ~FlowRaised
    /\ (JobOver /\ Has(JobPoller, "event_error")
            /\ returncode[JobPoller] = Some(0)
            /\ ~Has(JobPoller, "USER_CANCELLED"))
        => /\ Has(JobPoller, "markCompleted")
           /\ ~Has(JobPoller, "markFailed")

\* ------------------------------------------------------------------------
\* Retry properties
\* ------------------------------------------------------------------------
RetryOver == retry.pc \in {"returned", "raised"}
FirstOk(n) ==
    /\ retry.outcomes[n] = "ok"
    /\ \A k \in 1..(n - 1) : retry.outcomes[k] = "err"
AllFail == \A k \in 1..Retries : retry.outcomes[k] = "err"

\* C16: the retry loop invokes the wrapped function at most 3 times; it
\* stops at the first success and returns that call's value; after 3
\* failures _async_retry returns None and the generation calls raise, once.
C16_RetryBound ==
    /\ retry.calls <= 3
    /\ retry.raised <= 1
    /\ RetryOver =>
        IF AllFail
        THEN /\ retry.calls = 3
             /\ IF FatalSite(retry.site)
                THEN retry.pc = "raised" /\ retry.raised = 1 /\ retry.result = None
                ELSE /\ retry.pc = "returned" /\ retry.raised = 0
                     /\ retry.result = Some([value |-> None])
        ELSE /\ retry.pc = "returned" /\ retry.raised = 0
             /\ \E n \in 1..Retries :
                    /\ FirstOk(n)
                    /\ retry.calls = n
                    /\ retry.result = Some([value |-> Some(n)])

\* three failures at a generation call, then the single raise, although a
\* fourth invocation would have succeeded
C16_Witness ==
    /\ retry.site = "generate_toc"
    /\ retry.pc = "raised"
    /\ retry.calls = 3
    /\ retry.outcomes[4] = "ok"

\* ------------------------------------------------------------------------
\* Slide properties
\* ------------------------------------------------------------------------
SlideForms == {PhaseForms("SLIDE")[i] : i \in DOMAIN PhaseForms("SLIDE")}
ReportPhaseKeys == {PhaseForms("REPORT")[i] : i \in DOMAIN PhaseForms("REPORT")}
Produced(f) == f.dependencies \cap DOMAIN report_contents
SlideDone == hpc["SLIDE"] = "returned" /\ ~SkipPhase("SLIDE")
FromReport(f) == {SlideText(report_contents[r]) : r \in Produced(f)}
FromPrevious == SlideText(PreviousOutputs)

\* C18: when a SLIDE phase with forms has returned, every slide form has
\* content: from a produced report it depends on if there is one, and from
\* the prior-context summary otherwise, also when some reports exist.
C18_EverySlideGetsContent ==
    SlideDone =>
        \A f \in SlideForms :
            /\ f.key \in DOMAIN slide_contents
            /\ IF Produced(f) # {}
               THEN slide_contents[f.key] \in FromReport(f)
               ELSE slide_contents[f.key] = FromPrevious

\* C19: a slide form that depends on a key r of the report phase is only
\* generated once REPORT has returned with r's merged content stored; every
\* generation for it takes a report it depends on as its source, and what
\* is stored for it is made from such a report, never from the prior-context
\* summary.
C19_DependentSlideFromReport ==
    \A f \in SlideForms : \A r \in f.dependencies \cap ReportPhaseKeys :
        /\ (hpc["SLIDE"] # "idle" /\ ~SkipPhase("SLIDE")) =>
            /\ hpc["REPORT"] = "returned"
            /\ r \in DOMAIN report_contents
        /\ hpc["SLIDE"] = "running" =>
            /\ \E i \in DOMAIN SlideJobs :
                   SlideJobs[i] = [key |-> f.key, source |-> Some(r)]
            /\ \A i \in DOMAIN SlideJobs :
                   SlideJobs[i].key = f.key =>
                       /\ SlideJobs[i].source # None
                       /\ Val(SlideJobs[i].source) \in Produced(f)
        /\ f.key \in DOMAIN slide_contents =>
            /\ slide_contents[f.key] \in FromReport(f)
            /\ slide_contents[f.key] # FromPrevious

\* a slide that depends on two reports has been generated from each in
\* turn, the later report's slide being the one kept
C19_Witness ==
    /\ SlideDone
    /\ \E f \in SlideForms :
        /\ f.dependencies = {"r1", "r2"}
        /\ DOMAIN report_contents = {"r1", "r2"}
        /\ report_contents["r1"] # report_contents["r2"]
        /\ f.key \in DOMAIN slide_contents
        /\ slide_contents[f.key] = SlideText(report_contents["r2"])

\* ------------------------------------------------------------------------
\* Text properties
\* ------------------------------------------------------------------------
Parseable(raw) == JsonDecodes(clean_json_response(raw))
ParsesToObject(raw) == Parseable(raw) /\ JsonIsDict(clean_json_response(raw))

\* what is stored for a response that is not JSON, and for a JSON object
TextContentsAsParsed ==
    result_text # None =>
        LET raw == Val(result_text) IN
        /\ ~Parseable(raw) => text_contents = Put(EmptyDict, "text", raw)
        /\ ParsesToObject(raw) =>
            text_contents = JsonDict(clean_json_response(raw))

\* C20: when the text generation response is not parseable as JSON, the TEXT
\* phase raises nothing and text_contents is exactly {"text": raw response};
\* when it parses to a JSON object, text_contents is that object.
C20_TextFallback ==
    /\ TextContentsAsParsed
    /\ (result_text # None /\ ~Parseable(Val(result_text))) => hpc["TEXT"] # "raised"

\* ------------------------------------------------------------------------
\* Final save properties
\* ------------------------------------------------------------------------
SaveOver == hpc["SAVE"] \in {"returned", "raised"}
FinalsStored == {i \in DOMAIN saves : saves[i].final}
ContentKeys ==
    DOMAIN report_contents \cup DOMAIN slide_contents \cup DOMAIN text_contents
MergedResults ==
    [k \in ContentKeys |->
        IF k \in DOMAIN text_contents THEN text_contents[k]
        ELSE IF k \in DOMAIN slide_contents THEN slide_contents[k]
        ELSE report_contents[k]]
FinalSaveShape ==
    /\ final_saves <= 1
    /\ Cardinality(FinalsStored) <= final_saves
    /\ \A i \in FinalsStored :
        /\ i = Len(saves)
        /\ saves[i].payload = MergedResults
    /\ hpc["SAVE"] = "returned" /\ final_saves = 1 => FinalsStored # {}

\* C21 as stated: whenever SAVE has run, exactly one final save has been
\* issued, its payload is the union of the three content maps, and every
\* intermediate save precedes it.
C21_OneFinalSave ==
    /\ FinalSaveShape
    /\ SaveOver => final_saves = 1

\* C21 amended: SAVE issues exactly one final save, with that payload and
\* after every intermediate save, when the job carries its todo id and
\* target form id and the three content maps hold at least one entry;
\* otherwise it issues none.
C21_OneFinalSaveWhenIdsAndContent ==
    /\ FinalSaveShape
    /\ SaveOver =>
        final_saves = (IF ids_ok /\ ContentKeys # {} THEN 1 ELSE 0)

\* a final save of a report and a text value, stored after a checkpoint
C21_Witness ==
    /\ hpc["SAVE"] = "returned"
    /\ Len(saves) >= 2
    /\ ~saves[1].final
    /\ saves[Len(saves)].final
    /\ DOMAIN report_contents # {}
    /\ DOMAIN text_contents # {}

\* ------------------------------------------------------------------------
\* Cancellation Monitor properties
\* ------------------------------------------------------------------------
\* C22: the step in which a status query of the monitor fails sends no
\* signal, leaves the termination flag, the worker and the supervisor as
\* they were, and the monitor goes on polling as long as its loop condition
\* holds; a successful read of CANCELLED or FB_REQUESTED after such a
\* failure, made while the worker has no exit code, signals the worker and
\* sets the flag.
C22_QueryFailureIgnored ==
    [][\A p \in Pollers :
        /\ (~watch_seen[p].failed /\ watch_seen'[p].failed) =>
            /\ signals'[p] = signals[p]
            /\ worker_terminated_by_us'[p] = worker_terminated_by_us[p]
            /\ proc'[p] = proc[p]
            /\ pc'[p] = pc[p]
            /\ watch_task'[p] = (IF WatchGuard(p) THEN "sleeping" ELSE "done")
        /\ (watch_seen[p].failed /\ watch_seen[p].cancel = "no"
                /\ watch_seen'[p].cancel # "no" /\ returncode[p] = None) =>
            /\ signals'[p] = signals[p] + 1
            /\ worker_terminated_by_us'[p]
            /\ watch_task'[p] = "done"]_vars

\* a monitor whose query failed went on polling and later signalled the
\* worker on reading a cancellation status
C22_Witness ==
    \E p \in Pollers :
        /\ watch_seen[p].failed
        /\ watch_seen[p].cancel = "fired"
        /\ signals[p] = 1
        /\ worker_terminated_by_us[p]
        /\ pc[p] = "wait"

\* C23: while the exit code of the worker is known to the supervisor no
\* signal is sent and the termination flag is not set; a monitor that first
\* reads a cancellation status then leaves the run to be resolved from the
\* exit code: not as cancelled, FAILED for a non-zero code, the COMPLETED
\* path for code 0.
C23_NoSignalAfterExit ==
    /\ [][\A p \in Pollers :
            returncode[p] # None =>
                /\ signals'[p] <= signals[p]
                /\ worker_terminated_by_us'[p] => worker_terminated_by_us[p]]_vars
    /\ [](\A p \in Pollers :
            watch_seen[p].cancel = "late" =>
                /\ returncode[p] # None
                /\ signals[p] = 0
                /\ ~worker_terminated_by_us[p]
                /\ ~Has(p, "USER_CANCELLED")
                /\ pc[p] = "pnt_finally" =>
                    IF returncode[p] = Some(0)
                    THEN Has(p, "markCompleted") \/ Has(p, "event_error")
                    ELSE Has(p, "markFailed") /\ ~Has(p, "markCompleted"))

\* the monitor read CANCELLED or FB_REQUESTED after the worker had exited
\* with code 0, and the task was marked COMPLETED
C23_Witness ==
    \E p \in Pollers :
        /\ watch_seen[p].cancel = "late"
        /\ pc[p] = "pnt_finally"
        /\ returncode[p] = Some(0)
        /\ Has(p, "markCompleted") /\ Has(p, "updated")
        /\ todolist[Val(row[p])].draft_status = "COMPLETED"

\* C24: after the monitor has signalled a worker, the supervisor returns and
\* the poller makes its next lease attempt (as long as the run has lease
\* attempts left).
C24_PollerSurvivesTermination ==
    \A p \in Pollers : \A n \in 1..(MaxPolls - 1) :
        (signals[p] >= 1 /\ pc[p] = "wait" /\ polls[p] = n /\ n < quota[p])
            ~> (polls[p] = n + 1)

\* the worker of the first task was signalled and has exited, and the second
\* lease attempt of the poller has returned the next task
C24_Witness ==
    \E p \in Pollers :
        /\ signals[p] = 1
        /\ proc[p] = "exited"
        /\ pc[p] = "prepare"
        /\ polls[p] = 2
        /\ row[p] # None
        /\ todolist[Val(row[p])].consumer = Some(p)

\* ------------------------------------------------------------------------
\* Store Gateway properties
\* ------------------------------------------------------------------------
\* the query fails once and would succeed when issued again
TransientFailure == retry.outcomes[1] = "err" /\ retry.outcomes[2] = "ok"

\* C25: every Store Gateway call is retried: when its query fails once and
\* then succeeds, the call is issued a second time and takes effect, and
\* nothing is raised.
C25_StoreCallsRetried ==
    (retry.site \in StoreCalls /\ TransientFailure /\ RetryOver) =>
        /\ retry.calls = 2
        /\ retry.result = Some([value |-> Some(2)])
        /\ retry.raised = 0

\* ------------------------------------------------------------------------
\* Checkpoints and the killed worker
\* ------------------------------------------------------------------------
\* the section texts a merged string is made of
Pieces(merged) == {merged[i] : i \in DOMAIN merged} \ {Separator}
\* the texts of the section tasks the fan-in loop has taken so far
CompletedTexts(ts) ==
    UNION {{ts[j].content[i] : i \in DOMAIN ts[j].content} :
                j \in {k \in DOMAIN ts : ts[k].state = "handled"}}

\* C26: the stored result changes only by a save of the live worker, one
\* whole save at a time: the kill, the supervisor and the monitor leave it
\* as it is, so after a kill it is the last save that was completed before;
\* and a checkpoint is made only of the texts of sections that had
\* completed when it was saved.
C26_KillKeepsCheckpoints ==
    [][/\ saves' # saves =>
            /\ WorkerAlive
            /\ proc'[JobPoller] = "running"
            /\ pc' = pc
            /\ Len(saves') = Len(saves) + 1
            /\ SubSeq(saves', 1, Len(saves)) = saves
       /\ \A i \in DOMAIN saves' :
            (i > Len(saves) /\ ~saves'[i].final) =>
                \A k \in DOMAIN saves'[i].payload :
                    Pieces(saves'[i].payload[k]) \subseteq CompletedTexts(tasks')
       /\ ~WorkerAlive => saves' = saves]_vars

\* the worker was killed while REPORT was running, after a checkpoint had
\* been saved; the run was resolved as cancelled and the checkpoint is what
\* the store holds
C26_Witness ==
    /\ JobOver
    /\ exitcode[JobPoller] = -15
    /\ Has(JobPoller, "USER_CANCELLED")
    /\ hpc["REPORT"] = "running"
    /\ Len(saves) >= 1
    /\ ~saves[Len(saves)].final

\* ------------------------------------------------------------------------
\* content maps returned by the generation handlers
\* ------------------------------------------------------------------------
\* what a generation handler that returned normally has returned: the
\* literal empty map of the skip guard, else the state's content map
ReturnValue(h) ==
    IF SkipPhase(h) THEN EmptyDict
    ELSE CASE h = "REPORT" -> report_contents
           [] h = "SLIDE" -> slide_contents
           [] h = "TEXT" -> text_contents

GenerationHandlers == {"REPORT", "SLIDE", "TEXT"}

\* C27: a generation handler that returns normally returns a non-empty
\* content map when its plan phase has at least one form, and the empty
\* map when its plan phase has none
C27_ContentMapMatchesPlan ==
    \A h \in GenerationHandlers :
        hpc[h] = "returned" =>
            /\ Len(PhaseForms(h)) >= 1 => DOMAIN ReturnValue(h) # {}
            /\ Len(PhaseForms(h)) = 0 => ReturnValue(h) = EmptyDict

\* ------------------------------------------------------------------------
\* process start
\* ------------------------------------------------------------------------
StartupFailed(p) == pc[p] = "startup_failed"

\* C28: a failure of the store initialization at process start is raised
\* and the polling loop is never started; no lease attempt is made before
\* the initialization has succeeded
C28_NoPollingWithoutStore ==
    \A p \in Pollers :
        /\ ~db_client[p] => pc[p] \in {"start", "startup_failed"} /\ polls[p] = 0
        /\ StartupFailed(p) => ~db_client[p] /\ Has(p, "init_failed")

\* the store settings are missing: the start has failed, nothing was polled
C28_Witness ==
    /\ StartupFailed("A") /\ polls["A"] = 0 /\ quota["A"] > 0
    /\ \A t \in Tasks : todolist[t].draft_status = "PENDING"

\* ------------------------------------------------------------------------
\* terminal status writes
\* ------------------------------------------------------------------------
TerminalStatuses == {"COMPLETED", "FAILED"}

\* C29: every write of a terminal status (COMPLETED or FAILED) by the
\* supervisor clears the consumer in the same update, so the store never
\* shows a terminal status with a consumer
C29_TerminalWriteClearsConsumer ==
    [][\A t \in Tasks :
        (todolist'[t] # todolist[t] /\ todolist'[t].draft_status \in TerminalStatuses)
            => todolist'[t].consumer = None]_vars

\* both kinds of terminal write have reached rows that were leased
C29_Witness ==
    \E t, u \in Tasks :
        /\ todolist[t] = [draft_status |-> "COMPLETED", consumer |-> None]
        /\ todolist[u] = [draft_status |-> "FAILED", consumer |-> None]

\* ------------------------------------------------------------------------
\* reset of the supervisor state
\* ------------------------------------------------------------------------
OutsideTask(p) == pc[p] \in {"poll", "sleep", "poll_except"}

\* C30: once process_new_task has returned or raised, the supervisor state
\* is reset (no current task id, no worker handle, flag false), and the
\* flag is only ever seen set in the run whose monitor signalled the worker
C30_SupervisorStateReset ==
    \A p \in Pollers :
        /\ OutsideTask(p) =>
            /\ current_todo_id[p] = None
            /\ ~current_process[p]
            /\ ~worker_terminated_by_us[p]
        /\ worker_terminated_by_us[p] =>
            /\ current_todo_id[p] # None
            /\ watch_todo[p] = current_todo_id[p]
            /\ watch_seen[p].cancel = "fired"
            /\ signals[p] >= 1

\* the run of a first task was cancelled, and a later task's worker has
\* exited and its status is about to be resolved with the flag false
C30_Witness ==
    \E p \in Pollers : \E t \in Tasks :
        /\ pc[p] = "wait" /\ returncode[p] # None
        /\ ~worker_terminated_by_us[p]
        /\ current_todo_id[p] # None /\ current_todo_id[p] # Some(t)
        /\ todolist[t].draft_status \in CancelStatuses
        /\ todolist[t].consumer = Some(p)
        /\ todolist[Val(current_todo_id[p])].draft_status = "PENDING"

\* ------------------------------------------------------------------------
\* section tasks in flight
\* ------------------------------------------------------------------------
InFlight == {j \in DOMAIN tasks : tasks[j].state = "pending"}

\* C31: all section tasks in flight belong to the report being generated:
\* the TOC request and the fan-out of the next report start only after the
\* merge of the previous report with none of its tasks left, and no section
\* task is in flight while PLAN, SLIDE, TEXT or SAVE runs
C31_SectionTasksOfOneReport ==
    /\ InFlight # {} =>
        /\ hpc["REPORT"] \in {"running", "raised"}
        /\ report_stage \in {"fanout", "fanin"}
        /\ Len(tasks) <= Len(report_sections[ReportKey])
    /\ (hpc["REPORT"] = "running" /\ report_stage \in {"toc", "fanout"}) =>
        /\ InFlight = {}
        /\ \A i \in 1..(report_idx - 1) :
                PhaseForms("REPORT")[i] \in DOMAIN report_contents
    /\ \A h \in Handlers \ {"REPORT"} : hpc[h] = "running" => InFlight = {}

\* the second report's section task is in flight, the first report merged
C31_Witness ==
    /\ hpc["REPORT"] = "running" /\ report_stage = "fanin"
    /\ report_idx = 2 /\ InFlight # {}
    /\ PhaseForms("REPORT")[1] \in DOMAIN report_contents

\* ------------------------------------------------------------------------
\* cancellation against the worker's exit
\* ------------------------------------------------------------------------
\* C32: once the store shows CANCELLED or FB_REQUESTED for a task whose
\* worker is running, the status is never overwritten by COMPLETED or
\* FAILED, however the worker's exit interleaves with the monitor's polls
C32_CancelNeverOverwritten ==
    [][\A t \in Tasks :
        todolist[t].draft_status \in CancelStatuses =>
            todolist'[t].draft_status \notin TerminalStatuses]_vars

\* ------------------------------------------------------------------------
\* completion against the final result
\* ------------------------------------------------------------------------
\* the task the job poller leased is marked COMPLETED
JobCompleted ==
    \E t \in Tasks :
        row[JobPoller] = Some(t) /\ todolist[t].draft_status = "COMPLETED"

\* C33 as stated: the task is marked COMPLETED only if its worker persisted
\* a final result during the run
C33_CompletedOnlyWithFinalSave ==
    JobCompleted => FinalsStored # {}

\* C33 amended: the task is marked COMPLETED only if its worker ran the
\* pipeline to the normal return of SAVE; SAVE persisted exactly one final
\* result, as the last save, when the job carried its ids and the content
\* maps held an entry, and persisted nothing otherwise
C33_CompletedOnlyAfterSave ==
    [][/\ JobCompleted' =>
            /\ hpc'["SAVE"] = "returned"
            /\ exitcode'[JobPoller] = 0
            /\ Cardinality(FinalsStored') = final_saves' /\ final_saves' <= 1
            /\ \A i \in FinalsStored' : i = Len(saves')
       /\ (hpc["SAVE"] = "running" /\ hpc'["SAVE"] = "returned") =>
            IF ids_ok /\ ContentKeys # {}
            THEN saves' = Append(saves, [final |-> TRUE, payload |-> MergedResults])
            ELSE saves' = saves]_vars

\* the task is COMPLETED and the final result of its run is stored
C33_Witness ==
    /\ JobCompleted
    /\ FinalsStored # {}
    /\ Len(saves) >= 2

\* ------------------------------------------------------------------------
\* one kind of terminal write per run
\* ------------------------------------------------------------------------
\* C34: within one supervisor run for a task, markCompleted and markFailed
\* are never both invoked, in either order
C34_OneKindOfTerminalWrite ==
    \A p \in Pollers : ~(Has(p, "markCompleted") /\ Has(p, "markFailed"))

\* a run that invoked markCompleted has returned; its write had failed, so
\* the row still shows the lease
C34_Witness ==
    \E p \in Pollers :
        /\ RunOver(p) /\ Has(p, "markCompleted") /\ Has(p, "update_error")
        /\ row[p] # None /\ todolist[Val(row[p])].consumer = Some(p)

\* ------------------------------------------------------------------------
\* the monitor of one task and the worker of another
\* ------------------------------------------------------------------------
MonitorActive(p) == watch_task[p] \in {"created", "sleeping"}

\* C35: a signal is sent and the flag is set only by the monitor of the
\* task whose worker the supervisor is waiting for, on a cancel status of
\* that task; once the supervisor is past its wait the monitor is gone, so
\* it never signals or flags the worker of a later task
C35_MonitorBoundToItsTask ==
    [][\A p \in Pollers :
        /\ (signals'[p] > signals[p]
                \/ (worker_terminated_by_us'[p] /\ ~worker_terminated_by_us[p])) =>
            /\ pc[p] = "wait" /\ watch_task[p] = "sleeping"
            /\ watch_todo[p] = row[p] /\ current_todo_id[p] = row[p]
            /\ todolist[Val(row[p])].draft_status \in CancelStatuses
        /\ pc'[p] # "wait" => ~MonitorActive(p)']_vars

\* the worker of a first task was terminated; the worker of a later task
\* runs under its own monitor, with no signal and no flag
C35_Witness ==
    \E p \in Pollers : \E t \in Tasks :
        /\ pc[p] = "wait" /\ proc[p] = "running" /\ watch_task[p] = "sleeping"
        /\ row[p] # Some(t) /\ watch_todo[p] = row[p]
        /\ todolist[t].draft_status \in CancelStatuses
        /\ todolist[t].consumer = Some(p)
        /\ signals[p] = 0 /\ ~worker_terminated_by_us[p]

\* ------------------------------------------------------------------------
\* successive checkpoints of one report
\* ------------------------------------------------------------------------
\* the section texts of a merged string, in their order
PieceSeq(merged) == SelectSeq(merged, LAMBDA x : x # Separator)

\* a is b with some elements left out
RECURSIVE IsSubseq(_, _)
IsSubseq(a, b) ==
    IF a = <<>> THEN TRUE
    ELSE IF b = <<>> THEN FALSE
    ELSE IF Head(a) = Head(b) THEN IsSubseq(Tail(a), Tail(b))
    ELSE IsSubseq(a, Tail(b))

\* the merged string of key k in every checkpoint saved so far is kept,
\* text by text and in order, in the merged string m
KeptIn(k, m) ==
    \A i \in DOMAIN CheckpointsOf(k) :
        IsSubseq(PieceSeq(CheckpointsOf(k)[i].payload[k]), PieceSeq(m))

\* C36: within one report the checkpoints only grow: what one checkpoint
\* holds appears unchanged and in the same relative order in every later
\* checkpoint and in the final merge
C36_CheckpointsOnlyGrow ==
    [][/\ (Len(saves') > Len(saves) /\ ~saves'[Len(saves')].final) =>
            \A k \in DOMAIN saves'[Len(saves')].payload :
                KeptIn(k, saves'[Len(saves')].payload[k])
       /\ \A k \in DOMAIN report_contents' :
            (hpc["REPORT"] = "running" /\ report_stage = "merge"
                /\ report_stage' # "merge" /\ k = ReportKey) =>
                    KeptIn(k, report_contents'[k])]_vars

\* ------------------------------------------------------------------------
\* backoff sleeps of the retry loop
\* ------------------------------------------------------------------------
\* C37: the retry loop sleeps only between attempts: one sleep less than
\* the invocations it made, so Retries - 1 sleeps when every attempt failed
C37_SleepsOnlyBetweenAttempts ==
    (RetryOver /\ retry.calls >= 1) =>
        /\ retry.sleeps = retry.calls - 1
        /\ AllFail => retry.sleeps = Retries - 1

\* ------------------------------------------------------------------------
\* end of the fan-in loop
\* ------------------------------------------------------------------------
InFanIn == hpc["REPORT"] = "running" /\ report_stage = "fanin"

\* every title of the TOC of the current report has an entry
EveryTitleHasEntry ==
    \A i \in DOMAIN report_sections[ReportKey] :
        report_sections[ReportKey][i] \in DOMAIN section_contents[ReportKey]

\* C38: the fan-in loop ends exactly when all N section tasks have
\* finished, each handled once, and section_contents then holds an entry
\* for every title of the TOC
C38_FanInEndsWhenAllFinished ==
    [][/\ (InFanIn /\ ~InFanIn') =>
            /\ Len(tasks') = Len(report_sections[ReportKey])
            /\ \A j \in DOMAIN tasks' : tasks'[j].state # "pending"
       /\ (InFanIn /\ hpc'["REPORT"] = "running" /\ report_stage' # "fanin") =>
            /\ AllHandled(tasks')
            /\ EveryTitleHasEntry'
       /\ (InFanIn /\ InFanIn') => ~AllHandled(tasks')
       /\ InFanIn =>
            \A j \in DOMAIN tasks :
                tasks[j].state = "handled" => tasks'[j] = tasks[j]]_vars

============================================================================
